---- MODULE Spec2Model ----
(***************************************************************************)
(* KryneEngine containers and the DirectX 12 frame context.                 *)
(*                                                                         *)
(* FlatHashMap<Key, Value>: an open-addressing hash map with a key-value   *)
(* slot array and a parallel control-byte array (Spec, SpecStable,         *)
(* SpecPair, SpecOwn).  Pool<T, IndexType>: an array with an embedded free *)
(* list (SpecPool).  Dx12FrameContext: the command lists of one            *)
(* CommandAllocationSet (SpecLists, SpecSet) and the timestamp counter     *)
(* (SpecTimestamps), called by several threads.                            *)
(*                                                                         *)
(*                                                                         *)
(* The map is modelled for an integral Key (eastl::hash of an integer is   *)
(* the integer itself) on a target where sizeof(size_t) == 4, so that the  *)
(* control fragment is hash >> 25.  Both builds of the probing code are    *)
(* modelled: kUseSimd is fixed when the map is constructed.                *)
(*                                                                         *)
(* Memory the map reads without having initialized it (slots of a fresh    *)
(* slot buffer, bytes after the end of the control buffer) has no value    *)
(* the code determines.  Every operation therefore takes an extra input    *)
(* g \in Garbage, the contents of that memory during the call.             *)
(*                                                                         *)
(* m_count is a size_t.  It is represented by the integer congruent to it  *)
(* modulo 2^32 that lies in -MaxUnderflow .. capacity: a negative          *)
(* representative c stands for the wrapped value 2^32 + c.                 *)
(***************************************************************************)
EXTENDS Integers, Sequences, FiniteSets, TLC

\* ---- bounds of the model
\* largest _initialCapacity given to the constructor
MaxInitialCapacity == 3
\* Math::SimdHighestArch::alignment(), which is also the number of u8 lanes
\* of xsimd::batch<u8, Arch> (16, 32 or 64 on real targets)
SimdWidth == 2
\* how far below zero m_count may wrap before Remove is no longer explored
MaxUnderflow == 1
\* the inserts are explored while fewer than MaxEntries slots are occupied
MaxEntries == 2
\* the number of calls of a paired run
MaxPairCalls == 6
\* the map objects and the allocations of the runs that follow the buffers
MaxMaps == 2
MaxBuffers == 8
\* the width in bits of the pool's IndexType (8, 16, 32 or 64 on real targets)
IndexBits == 2
\* largest _baseCapacity given to the pool's constructor
MaxBaseCapacity == 2
\* the frees are explored while the free list holds fewer than MaxFreed indices
MaxFreed == 3
\* the threads that call a Dx12FrameContext
MaxThreads == 2
\* BeginCommandList is explored while fewer than MaxLists command lists are in use
MaxLists == 2
\* PutTimestamp is explored while m_timestampIndex is below MaxTimestamps
MaxTimestamps == 3

\* ---- program constants
kUnused == 128
kTombstone == 129
kAvailableSlotFlag == 128
HashShift == 25
DefaultCapacity == 32
MaskBits == 64

\* keys 1 and 33 share the control fragment 0 and, for every power-of-two
\* capacity up to 32, the start index 1; 33554432 = 2^25 has fragment 1 and
\* start index 0 for those capacities
Keys == {1, 33, 33554432}
Values == {1, 2}
NoKey == 0 - 1
NoValue == 0 - 1

\* a slot of a slot buffer that was never constructed
Uninit == [key |-> NoKey, val |-> NoValue]

VARIABLES
    kUseSimd,         \* build configuration: which probing path is compiled
    m_capacity,
    m_count,
    m_controlBuffer,  \* [0 .. capacity + padding - 1 -> 0..255]
    m_kvpBuffer,      \* [0 .. capacity - 1 -> kvp], Uninit where never written
    latest,           \* history: per key, the value of its last successful
                      \* insert not followed by a successful Remove
    lastOp,           \* history: the last call and what it returned
    fault,            \* "none", or why the last call did not return normally
    twin,             \* a second map, built with the vectorized path, that is
                      \* given the same calls (used by the paired runs only)
    own,              \* the allocator's buffers and the map objects that hold
                      \* them (used by the runs that follow the buffers only)
    pool,             \* a Pool<T, IndexType> and the indices its client holds
    cmd,              \* a Dx12FrameContext::CommandAllocationSet and the
                      \* threads that call it
    ts                \* the timestamp counter of a Dx12FrameContext and the
                      \* threads that call it

\* the variables of the map, which the runs of the other classes leave alone
mapVars == <<kUseSimd, m_capacity, m_count, m_controlBuffer, m_kvpBuffer,
             latest, lastOp, fault, twin, own>>

vars == <<kUseSimd, m_capacity, m_count, m_controlBuffer, m_kvpBuffer,
          latest, lastOp, fault, twin, own, pool, cmd, ts>>

\* ---- storage layout
kControlAlignment == IF kUseSimd THEN 1 ELSE SimdWidth
kControlBufferPadding == IF kControlAlignment = 1 THEN 0 ELSE kControlAlignment

BatchSize == SimdWidth
Lanes == 0 .. (BatchSize - 1)

AlignUp(value, alignment) == ((value + alignment - 1) \div alignment) * alignment

Min(S) == CHOOSE x \in S : \A y \in S : x <= y

\* ---- hash / control derivation
Hash(key) == key

ControlOf(key) == (Hash(key) \div (2 ^ HashShift)) % 256

IsAvailable(c) == c >= kAvailableSlotFlag

\* ---- the map as a value: the four fields of a FlatHashMap object
NullMap == [capacity |-> 0, count |-> 0, ctrl |-> <<>>, kvp |-> <<>>]

This == [capacity |-> m_capacity, count |-> m_count,
         ctrl |-> m_controlBuffer, kvp |-> m_kvpBuffer]

ControlLen(m) == IF m.capacity = 0 THEN 0 ELSE m.capacity + kControlBufferPadding

End(m) == m.capacity

IsValidEntry(m, it) == ~IsAvailable(m.ctrl[it])

\* the occupied slots, and the (key, value) pairs they hold
Occupied(m) == {i \in 0 .. (m.capacity - 1) : IsValidEntry(m, i)}

Pairs(m) == {m.kvp[i] : i \in Occupied(m)}

\* ---- memory the map did not initialize
\* Only a batch load reads control bytes after the end of the buffer, at most
\* BatchSize - 1 of them; only comparisons with the key of the call read
\* garbage keys.
GarbageBytes == {kUnused, kTombstone} \cup {ControlOf(k) : k \in Keys}

GarbageLanes == IF kUseSimd THEN 0 .. (BatchSize - 2) ELSE {}

\* hash % m_capacity with m_capacity = 0 is undefined: the division traps
\* (x86) or yields a number (ARM)
DivideByZero == {"trap", "no trap"}

\* what a call with this key on map m can depend on beyond the map
GarbageOf(m, key) ==
    [ctrl : [GarbageLanes -> GarbageBytes],
     key : {key, NoKey},
     divide : IF m.capacity = 0 THEN DivideByZero ELSE {"no trap"}]

Garbage(key) == GarbageOf(This, key)

\* m_controlBuffer[a]; a byte after the end of the buffer is garbage
ControlAt(m, a, g) ==
    IF a < ControlLen(m) THEN m.ctrl[a] ELSE g.ctrl[a - ControlLen(m)]

\* m_kvpBuffer[a].first; a slot that was never constructed, or that lies
\* after the end of the buffer, is garbage.  A tombstoned slot keeps the
\* payload it had.
KeyAt(m, a, g) ==
    IF a < m.capacity /\ m.kvp[a] # Uninit THEN m.kvp[a].key ELSE g.key

\* ---- Find
\* What a probe returns: a slot index (End(m) for end()), and the fault that
\* kept it from returning, if any.
Returned(slot) == [slot |-> slot, fault |-> "none"]
Faulted(why) == [slot |-> 0 - 1, fault |-> why]

\* Scalar path.  `control` is the reference bound to the control byte of the
\* start index before the loop; the loop does not rebind it.
RECURSIVE ScalarFindLoop(_, _, _, _, _, _)
ScalarFindLoop(m, key, g, control, probeIndex, i) ==
    IF ~(i < m.capacity /\ control # kUnused)
    THEN Returned(End(m))
    ELSE IF control = ControlOf(key) /\ KeyAt(m, probeIndex, g) = key
         THEN Returned(probeIndex)
         ELSE ScalarFindLoop(m, key, g, control, (probeIndex + 1) % m.capacity, i + 1)

\* A u64 lane mask is the set of its set bits.
GetLeastSignificantBit(mask) == Min(mask)
BitMask(n) == 0 .. (n - 1)
AllBits == 0 .. (MaskBits - 1)
ShiftLeft(mask, n) == {b + n : b \in mask} \cap AllBits

\* xsimd::load_unaligned(m_controlBuffer + probeIndex) and (batch == c).mask()
LoadBatch(m, probeIndex, g) == [j \in Lanes |-> ControlAt(m, probeIndex + j, g)]
EqMask(batch, c) == {j \in Lanes : batch[j] = c}
AvailableMask(batch) == {j \in Lanes : IsAvailable(batch[j])}

\* The loop over the matching lanes of one batch, shared by Find and the
\* stable FindAndAllocateSlot.  Returns the slot whose key compared equal,
\* NoMatch when the mask ran empty, or Hang when an iteration changes neither
\* matchMask nor offset (bitIndex = 0 and the key differs).
NoMatch == 0 - 1
Hang == 0 - 2
RECURSIVE MatchLoop(_, _, _, _, _, _)
MatchLoop(m, key, g, probeIndex, matchMask, offset) ==
    IF matchMask = {}
    THEN NoMatch
    ELSE LET bitIndex == GetLeastSignificantBit(matchMask)
             newOffset == offset + bitIndex
         IN  IF KeyAt(m, probeIndex + newOffset, g) = key
             THEN probeIndex + newOffset
             ELSE IF bitIndex = 0
                  THEN Hang
                  ELSE MatchLoop(m, key, g, probeIndex,
                                 ShiftLeft(matchMask, bitIndex), newOffset)

\* The offsets from probeIndex of the slots whose keys the loop above
\* compares, in the order of the comparisons; an offset is repeated where
\* the loop repeats its iteration for ever.
RECURSIVE MatchLoopCompares(_, _, _, _, _, _)
MatchLoopCompares(m, key, g, probeIndex, matchMask, offset) ==
    IF matchMask = {}
    THEN <<>>
    ELSE LET bitIndex == GetLeastSignificantBit(matchMask)
             newOffset == offset + bitIndex
         IN  IF KeyAt(m, probeIndex + newOffset, g) = key
             THEN <<newOffset>>
             ELSE IF bitIndex = 0
                  THEN <<newOffset, newOffset>>
                  ELSE <<newOffset>> \o MatchLoopCompares(m, key, g, probeIndex,
                                                        ShiftLeft(matchMask, bitIndex),
                                                        newOffset)

\* matchMask of a batch: the lanes equal to the control, below the first
\* unused lane
MatchMask(controlMask, unusedMask) ==
    controlMask \cap (IF unusedMask = {} THEN AllBits
                      ELSE BitMask(GetLeastSignificantBit(unusedMask)))

RECURSIVE SimdFindLoop(_, _, _, _, _)
SimdFindLoop(m, key, g, probeIndex, i) ==
    IF ~(i < m.capacity)
    THEN Returned(End(m))
    ELSE LET controlBatch == LoadBatch(m, probeIndex, g)
             unusedMask == EqMask(controlBatch, kUnused)
             expectedMask == EqMask(controlBatch, ControlOf(key))
             found == MatchLoop(m, key, g, probeIndex,
                                MatchMask(expectedMask, unusedMask), 0)
             next == SimdFindLoop(m, key, g,
                                  (probeIndex + kControlAlignment) % m.capacity,
                                  i + kControlAlignment)
         IN  IF expectedMask = {}
             THEN IF unusedMask # {} THEN Returned(End(m)) ELSE next
             ELSE IF found = Hang THEN Faulted("hang")
                  ELSE IF found # NoMatch THEN Returned(found)
                  ELSE IF unusedMask # {} THEN Returned(End(m)) ELSE next

\* With m_capacity = 0 the division by zero either traps or yields some
\* probeIndex; neither loop is then entered (i < m_capacity is false before
\* anything is read) and end() is returned.
Find(m, key, g) ==
    IF m.capacity = 0
    THEN IF g.divide = "trap" THEN Faulted("division by zero") ELSE Returned(End(m))
    ELSE LET probeIndex == Hash(key) % m.capacity
         IN  IF ~kUseSimd
             THEN ScalarFindLoop(m, key, g, m.ctrl[probeIndex], probeIndex, 0)
             ELSE SimdFindLoop(m, key, g, probeIndex, 0)

\* ---- FindAndAllocateSlot, Grow, the unstable inserts
\* What FindAndAllocateSlot and the map operations return: the map after the
\* call, the slot, the 'inserted' flag, and the fault if any.
Result(m, slot, inserted) ==
    [map |-> m, slot |-> slot, inserted |-> inserted, fault |-> "none"]
Failure(m, why) ==
    [map |-> m, slot |-> 0 - 1, inserted |-> FALSE, fault |-> why]

\* KE_ERROR("Unreachable code") after the probe loop
Unreachable(m) == Failure(m, "unreachable code")

\* m_controlBuffer[slot] = control; ++m_count;
Claim(m, slot, control) ==
    [m EXCEPT !.ctrl[slot] = control, !.count = @ + 1]

\* new (result.first) kvp(_kvp)
Construct(m, slot, kvp) == [m EXCEPT !.kvp[slot] = kvp]

\* the pre-check with the + 1 forgotten
LoadFactorExceeded_CountOnly(m) ==
    IF m.count < 0 THEN TRUE ELSE m.count * 10 > 7 * m.capacity

\* static_cast<double>(m_count + 1) / static_cast<double>(m_capacity) > 0.7;
\* a wrapped m_count + 1 is a number near 2^32
LoadFactorExceeded(m) ==
    IF m.count + 1 < 0 THEN TRUE ELSE (m.count + 1) * 10 > 7 * m.capacity

\* the m_capacity == 0 branch of Grow: fresh buffers
Allocated(newCapacity) ==
    [capacity |-> newCapacity,
     count |-> 0,
     ctrl |-> [i \in 0 .. (newCapacity + kControlBufferPadding - 1) |-> kUnused],
     kvp |-> [i \in 0 .. (newCapacity - 1) |-> Uninit]]

RECURSIVE ScalarAllocLoop(_, _, _, _, _, _)
ScalarAllocLoop(m, key, Fast, g, probeIndex, i) ==
    IF ~(i < m.capacity)
    THEN Unreachable(m)
    ELSE LET controlSlot == m.ctrl[probeIndex]
         IN  IF ~Fast /\ controlSlot = ControlOf(key) /\ KeyAt(m, probeIndex, g) = key
             THEN Result(m, probeIndex, FALSE)
             ELSE IF IsAvailable(controlSlot)
                  THEN Result(Claim(m, probeIndex, ControlOf(key)), probeIndex, TRUE)
                  ELSE ScalarAllocLoop(m, key, Fast, g,
                                       (probeIndex + 1) % m.capacity, i + 1)

RECURSIVE SimdFastLoop(_, _, _, _, _)
SimdFastLoop(m, key, g, probeIndex, i) ==
    IF ~(i < m.capacity)
    THEN Unreachable(m)
    ELSE LET availableMask == AvailableMask(LoadBatch(m, probeIndex, g))
             firstIndex == GetLeastSignificantBit(availableMask)
         IN  IF availableMask # {} /\ firstIndex + probeIndex < m.capacity
             THEN Result(Claim(m, probeIndex + firstIndex, ControlOf(key)),
                         probeIndex + firstIndex, TRUE)
             ELSE SimdFastLoop(m, key, g,
                               (probeIndex + kControlAlignment) % m.capacity,
                               i + kControlAlignment)

\* the two places of the stable vectorized path that claim firstAvailableIndex
ClaimFirstAvailable(m, key, firstAvailableIndex) ==
    IF firstAvailableIndex < m.capacity
    THEN Result(Claim(m, firstAvailableIndex, ControlOf(key)), firstAvailableIndex, TRUE)
    ELSE Failure(m, "assert firstAvailableIndex < m_capacity")

RECURSIVE SimdStableLoop(_, _, _, _, _, _)
SimdStableLoop(m, key, g, probeIndex, i, firstAvailable) ==
    IF ~(i < m.capacity)
    THEN Unreachable(m)
    ELSE LET controlBatch == LoadBatch(m, probeIndex, g)
             availableMask == AvailableMask(controlBatch)
             firstAvailableIndex ==
                 IF firstAvailable >= m.capacity /\ availableMask # {}
                 THEN probeIndex + GetLeastSignificantBit(availableMask)
                 ELSE firstAvailable
             controlMask == EqMask(controlBatch, ControlOf(key))
             unusedMask == EqMask(controlBatch, kUnused)
             found == MatchLoop(m, key, g, probeIndex,
                                MatchMask(controlMask, unusedMask), 0)
             next == SimdStableLoop(m, key, g,
                                    (probeIndex + kControlAlignment) % m.capacity,
                                    i + kControlAlignment, firstAvailableIndex)
         IN  IF controlMask = {}
             THEN IF unusedMask # {}
                  THEN ClaimFirstAvailable(m, key, firstAvailableIndex)
                  ELSE next
             ELSE IF found = Hang THEN Failure(m, "hang")
                  ELSE IF found # NoMatch THEN Result(m, found, FALSE)
                  ELSE IF unusedMask # {}
                       THEN ClaimFirstAvailable(m, key, firstAvailableIndex)
                       ELSE next

\* the probe of FindAndAllocateSlot, after the load-factor pre-check
Probe(m, key, Fast, g) ==
    LET probeIndex == Hash(key) % m.capacity
    IN  IF kUseSimd
        THEN IF Fast
             THEN SimdFastLoop(m, key, g, probeIndex, 0)
             ELSE SimdStableLoop(m, key, g, probeIndex, 0, m.capacity)
        ELSE ScalarAllocLoop(m, key, Fast, g, probeIndex, 0)

RECURSIVE FindAndAllocateSlot(_, _, _, _)
RECURSIVE Grow(_, _, _)
RECURSIVE GrowLoop(_, _, _, _)
RECURSIVE EmplaceUnstable(_, _, _)

\* EmplaceUnstable / InsertUnstable: the same code but for move or copy
EmplaceUnstable(m, kvp, g) ==
    LET result == FindAndAllocateSlot(m, kvp.key, TRUE, g)
    IN  IF result.fault # "none"
        THEN result
        ELSE IF ~(result.slot # End(result.map) /\ result.inserted)
             THEN Failure(result.map, "assert result.first != end() && result.second")
             ELSE [result EXCEPT !.map = Construct(result.map, result.slot, kvp)]

\* FlatHashMap temp(m_allocator, _newCapacity): the constructor calls Grow on
\* the empty map when the capacity asked for is positive
Constructed(initialCapacity, g) ==
    IF initialCapacity > 0 THEN Grow(NullMap, initialCapacity, g).map ELSE NullMap

\* for (auto i = 0; i < m_count; ++i): the loop of Grow's else branch, over
\* the first m_count control bytes; then *this = std::move(temp)
GrowLoop(m, temp, i, g) ==
    IF ~(m.count < 0 \/ i < m.count)
    THEN Result(temp, 0, FALSE)
    ELSE IF i >= ControlLen(m)
         THEN Failure(m, "out of bounds read")
         ELSE IF ~IsAvailable(m.ctrl[i])
              THEN LET moved == EmplaceUnstable(temp, m.kvp[i], g)
                   IN  IF moved.fault # "none"
                       THEN Failure(m, moved.fault)
                       ELSE GrowLoop(m, moved.map, i + 1, g)
              ELSE GrowLoop(m, temp, i + 1, g)

Grow(m, newCapacity, g) ==
    IF m.capacity = 0
    THEN Result(Allocated(AlignUp(newCapacity, kControlAlignment)), 0, FALSE)
    ELSE GrowLoop(m, Constructed(newCapacity, g), 0, g)

FindAndAllocateSlot(m, key, Fast, g) ==
    LET grown == IF m.capacity = 0
                 THEN Grow(m, DefaultCapacity, g)
                 ELSE IF LoadFactorExceeded(m)
                      THEN Grow(m, m.capacity * 2, g)
                      ELSE Result(m, 0, FALSE)
    IN  IF grown.fault # "none" THEN grown ELSE Probe(grown.map, key, Fast, g)

\* Insert / Emplace: the same code but for copy or move
Insert(m, kvp, g) ==
    LET result == FindAndAllocateSlot(m, kvp.key, FALSE, g)
    IN  IF result.fault # "none"
        THEN result
        ELSE IF result.slot = End(result.map)
             THEN Failure(result.map, "assert result.first != end()")
             ELSE IF result.inserted
                  THEN [result EXCEPT !.map = Construct(result.map, result.slot, kvp)]
                  ELSE result

\* ---- Remove, Defragment
\* Remove marking the slot unused where the code writes the tombstone
Remove_MarksUnused(m, key, g) ==
    LET it == Find(m, key, g)
    IN  IF it.fault # "none"
        THEN Failure(m, it.fault)
        ELSE IF it.slot # End(m)
             THEN IF it.slot >= ControlLen(m)
                  THEN Failure(m, "out of bounds write")
                  ELSE Result([m EXCEPT !.count = @ - 1, !.ctrl[it.slot] = kUnused],
                              it.slot, TRUE)
             ELSE Result(m, it.slot, FALSE)

Remove(m, key, g) ==
    LET it == Find(m, key, g)
    IN  IF it.fault # "none"
        THEN Failure(m, it.fault)
        ELSE IF it.slot # End(m)
             THEN IF it.slot >= ControlLen(m)
                  THEN Failure(m, "out of bounds write")
                  ELSE Result([m EXCEPT !.count = @ - 1, !.ctrl[it.slot] = kTombstone],
                              it.slot, TRUE)
             ELSE Result(m, it.slot, FALSE)

RECURSIVE DefragmentLoop(_, _, _, _)
DefragmentLoop(m, temp, it, g) ==
    IF it = End(m)
    THEN Result(temp, 0, FALSE)
    ELSE IF ~IsValidEntry(m, it)
         THEN DefragmentLoop(m, temp, it + 1, g)
         ELSE LET moved == EmplaceUnstable(temp, m.kvp[it], g)
              IN  IF moved.fault # "none"
                  THEN Failure(m, moved.fault)
                  ELSE DefragmentLoop(m, moved.map, it + 1, g)

Defragment(m, g) ==
    IF m.capacity = 0
    THEN Result(m, 0, FALSE)
    ELSE DefragmentLoop(m, Constructed(m.capacity, g), 0, g)

\* ---- the buffers: allocation, move, destruction
\* Here a map object is its two buffer pointers, m_capacity and m_count; the
\* contents of the buffers are left out.  Buffers are numbered in the order
\* of their allocation and a number is never given out twice.
Null == 0
Buffers == 1 .. MaxBuffers
Objects == 1 .. MaxMaps

\* a map without buffers: default member initializers, or moved from
EmptyObject == [capacity |-> 0, count |-> 0, kvp |-> Null, ctrl |-> Null]

NoneOwned ==
    [heap |-> [b \in Buffers |-> "unallocated"],
     maps |-> [i \in Objects |-> EmptyObject],
     life |-> [i \in Objects |-> "unborn"],
     op |-> [name |-> "none", dst |-> 0, src |-> 0]]

Unallocated(h) == {b \in Buffers : h[b] = "unallocated"}

\* m_allocator.allocate / Allocate<T>: the buffer handed out
Allocate(h) == Min(Unallocated(h))

\* if (p != nullptr) m_allocator.deallocate(p, ...)
Deallocate(h, p) ==
    IF p = Null THEN h
    ELSE [h EXCEPT ![p] = IF @ = "live" THEN "released" ELSE "released twice"]

\* the move assignment with the source's pointers left as they were
OwnedMoveAssign_KeepsSource(h, this, other) ==
    [heap |-> Deallocate(Deallocate(h, this.kvp), this.ctrl),
     this |-> other,
     other |-> [other EXCEPT !.capacity = 0, !.count = 0]]

\* operator=(FlatHashMap&&): the heap, *this and _other after the call
OwnedMoveAssign(h, this, other) ==
    [heap |-> Deallocate(Deallocate(h, this.kvp), this.ctrl),
     this |-> other,
     other |-> EmptyObject]

\* ~FlatHashMap
OwnedDestroy(h, this) == Deallocate(Deallocate(h, this.kvp), this.ctrl)

\* the m_capacity == 0 branch of Grow
OwnedAllocated(h, newCapacity) ==
    LET kvp == Allocate(h)
        h1 == [h EXCEPT ![kvp] = "live"]
        ctrl == Allocate(h1)
    IN  [heap |-> [h1 EXCEPT ![ctrl] = "live"],
         this |-> [capacity |-> newCapacity, count |-> 0, kvp |-> kvp, ctrl |-> ctrl]]

\* FlatHashMap(allocator, initialCapacity)
OwnedConstructed(h, initialCapacity) ==
    IF initialCapacity > 0
    THEN OwnedAllocated(h, AlignUp(initialCapacity, kControlAlignment))
    ELSE [heap |-> h, this |-> EmptyObject]

RECURSIVE OwnedGrow(_, _, _, _)
RECURSIVE OwnedAllocateSlot(_, _, _)
RECURSIVE OwnedFill(_, _, _, _)

\* The loops of Grow and Defragment call temp.EmplaceUnstable once for every
\* valid entry they meet; how many they meet depends on the contents and is
\* given by valid: its head for this rebuild, its tail for the rebuilds of
\* the temporary map.
OwnedFill(h, temp, n, valid) ==
    IF n = 0
    THEN [heap |-> h, this |-> temp]
    ELSE LET placed == OwnedAllocateSlot(h, temp, valid)
         IN  OwnedFill(placed.heap, placed.this, n - 1, valid)

\* temp is filled, *this = std::move(temp), temp is destroyed
OwnedRebuilt(h, this, temp, n, valid) ==
    LET filled == OwnedFill(temp.heap, temp.this, n, valid)
        assigned == OwnedMoveAssign(filled.heap, this, filled.this)
    IN  [heap |-> OwnedDestroy(assigned.heap, assigned.other), this |-> assigned.this]

OwnedGrow(h, this, newCapacity, valid) ==
    IF this.capacity = 0
    THEN OwnedAllocated(h, AlignUp(newCapacity, kControlAlignment))
    ELSE OwnedRebuilt(h, this, OwnedConstructed(h, newCapacity),
                      IF valid = <<>> THEN 0 ELSE Min({Head(valid), this.count}),
                      IF valid = <<>> THEN <<>> ELSE Tail(valid))

\* FindAndAllocateSlot when it claims a slot: the pre-check, then ++m_count
OwnedAllocateSlot(h, this, valid) ==
    LET grown == IF this.capacity = 0
                 THEN OwnedGrow(h, this, DefaultCapacity, valid)
                 ELSE IF LoadFactorExceeded(this)
                      THEN OwnedGrow(h, this, this.capacity * 2, valid)
                      ELSE [heap |-> h, this |-> this]
    IN  [grown EXCEPT !.this.count = @ + 1]

OwnedDefragment(h, this, valid) ==
    IF this.capacity = 0
    THEN [heap |-> h, this |-> this]
    ELSE OwnedRebuilt(h, this, OwnedConstructed(h, this.capacity),
                      Min({Head(valid), this.capacity}), Tail(valid))

\* ---- Pool<T, IndexType>: a contiguous array with the free list in its cells
\* IndexType is an unsigned type narrower than int (u8, u16): m_capacity * 2 and
\* m_size++ are computed in int and truncated when they are stored.
IndexRange == 2 ^ IndexBits
kInvalidIndex == IndexRange - 1
IndexType == 0 .. kInvalidIndex
Truncated(n) == n % IndexRange

\* A cell of m_pool holds the link Free wrote (an IndexType), the T its client
\* wrote, or nothing the code determines.
ObjectT == 0 - 1
UninitT == 0 - 2

\* the pool as a value: m_pool is [0 .. allocated length - 1 -> cell]
NoPool == [life |-> "unborn", m_pool |-> <<>>, m_firstFree |-> 0, m_size |-> 0,
           m_capacity |-> 0, live |-> {}, freed |-> {},
           last |-> [op |-> "none", index |-> 0], fault |-> "none"]

ThePool == [m_pool |-> pool.m_pool, m_firstFree |-> pool.m_firstFree,
            m_size |-> pool.m_size, m_capacity |-> pool.m_capacity]

\* m_allocator.Allocate<T>(count)
AllocatedT(count) == [i \in 0 .. (count - 1) |-> UninitT]

PoolConstructed(baseCapacity) ==
    [m_pool |-> AllocatedT(baseCapacity),
     m_firstFree |-> kInvalidIndex,
     m_size |-> 0,
     m_capacity |-> baseCapacity]

\* the old array is copied, cell by cell, into the first m_capacity cells of
\* the new one
PoolGrow(p) ==
    IF p.m_capacity = 0
    THEN [p EXCEPT !.m_capacity = 1, !.m_pool = AllocatedT(1)]
    ELSE [p EXCEPT !.m_pool = [i \in 0 .. (p.m_capacity * 2 - 1) |->
                                 IF i < p.m_capacity THEN p.m_pool[i] ELSE UninitT],
                   !.m_capacity = Truncated(p.m_capacity * 2)]

\* *reinterpret_cast<IndexType*>(m_pool + index); where no link was written
\* the read yields link, a value the code does not determine
LinkAt(p, index, link) ==
    IF index \in DOMAIN p.m_pool /\ p.m_pool[index] \in IndexType
    THEN p.m_pool[index]
    ELSE link

\* what Allocate and Free return: the pool after the call and the index
PoolResult(p, index) == [pool |-> p, index |-> index, fault |-> "none"]
PoolFailure(p, why) == [pool |-> p, index |-> kInvalidIndex, fault |-> why]

PoolAllocate(p, link) ==
    IF p.m_firstFree = kInvalidIndex
    THEN LET grown == IF p.m_size = p.m_capacity THEN PoolGrow(p) ELSE p
         IN  PoolResult([grown EXCEPT !.m_size = Truncated(@ + 1)], p.m_size)
    ELSE PoolResult([p EXCEPT !.m_firstFree = LinkAt(p, p.m_firstFree, link)],
                    p.m_firstFree)

PoolFree(p, index) ==
    IF ~(index < p.m_size)
    THEN PoolFailure(p, "assert _index < m_size")
    ELSE PoolResult([p EXCEPT !.m_pool[index] = p.m_firstFree, !.m_firstFree = index],
                    index)

\* the client writes a T through operator[]
PoolWritten(p, index) == [p EXCEPT !.m_pool[index] = ObjectT]

\* ---- Dx12FrameContext::CommandAllocationSet
\* A command list is the number of its CreateCommandList call; a vector is the
\* sequence of its elements; NoList is nullptr.
Threads == 1 .. MaxThreads
NoThread == 0
NoList == 0

\* the set as a value: the fields the calls read and write
NoSet == [life |-> "unborn",
          m_commandAllocator |-> FALSE,
          m_usedCommandLists |-> <<>>,
          m_availableCommandLists |-> <<>>,
          m_mutex |-> NoThread,
          created |-> 0,
          recording |-> {},
          pc |-> [t \in Threads |-> "idle"],
          call |-> [t \in Threads |-> "none"],
          arg |-> [t \in Threads |-> NoList],
          out |-> {},
          last |-> [op |-> "none", list |-> NoList],
          destroying |-> FALSE,
          fault |-> "none"]

\* the locked part of BeginCommandList: a new command list when none is
\* available, else the last available one, reset; it is returned
BeginCommandList(s) ==
    IF s.m_availableCommandLists = <<>>
    THEN [s EXCEPT !.m_usedCommandLists = Append(@, s.created + 1),
                   !.created = @ + 1,
                   !.recording = @ \cup {s.created + 1}]
    ELSE LET back == s.m_availableCommandLists[Len(s.m_availableCommandLists)]
         IN  [s EXCEPT !.m_usedCommandLists = Append(@, back),
                       !.m_availableCommandLists =
                           SubSeq(@, 1, Len(s.m_availableCommandLists) - 1),
                       !.recording = @ \cup {back}]

\* the locked part of EndCommandList: Close() when the list is a used one
EndCommandList(s, commandList) ==
    IF \E i \in DOMAIN s.m_usedCommandLists : s.m_usedCommandLists[i] = commandList
    THEN [s EXCEPT !.recording = @ \ {commandList}]
    ELSE s

\* Reset leaving the used lists in m_usedCommandLists
Reset_KeepsUsed(s) ==
    [s EXCEPT !.m_availableCommandLists = @ \o s.m_usedCommandLists]

\* the locked part of Reset
Reset(s) ==
    [s EXCEPT !.m_availableCommandLists = @ \o s.m_usedCommandLists,
              !.m_usedCommandLists = <<>>]

\* the locked part of Destroy after its assertion
Destroy(s) ==
    [s EXCEPT !.m_usedCommandLists = <<>>,
              !.m_availableCommandLists = <<>>,
              !.recording = {},
              !.m_commandAllocator = FALSE,
              !.life = "destroyed"]

\* ---- Dx12FrameContext: the timestamp queries of a frame
\* m_timestampIndex is a std::atomic<u32>; m_timestampOffset is the first
\* query of the frame in the heap; m_timestamps is a vector, of which the
\* length is kept.  The counter stays below MaxTimestamps, far from 2^32.
Offsets == {0, MaxTimestamps + 1}

NoTimestamps == [life |-> "unborn",
                 m_timestampBufferAllocation |-> FALSE,
                 m_timestampOffset |-> 0,
                 m_timestampIndex |-> 0,
                 m_timestamps |-> 0,
                 pc |-> [t \in Threads |-> "idle"],
                 count |-> [t \in Threads |-> 0],
                 handed |-> {},
                 last |-> [op |-> "none", index |-> 0]]

\* m_timestampIndex.fetch_add(1) + m_timestampOffset
PutTimestamp(f) ==
    [f EXCEPT !.m_timestampIndex = @ + 1,
              !.last = [op |-> "PutTimestamp",
                        index |-> f.m_timestampIndex + f.m_timestampOffset]]


\* ---- the state machine: one map object and the calls made on it
\* op, key: the call; capacity: m_capacity when it was made; slot, flag: the
\* iterator and the bool it returned (found / inserted / removed)
Called(op, key, slot, flag) ==
    [op |-> op, key |-> key, capacity |-> m_capacity, slot |-> slot, flag |-> flag]

\* the fields of the map after a call that returned; a call that faulted
\* leaves the model's map as it was and ends the run
Stored(result) ==
    /\ fault' = result.fault
    /\ m_capacity' = IF result.fault = "none" THEN result.map.capacity ELSE m_capacity
    /\ m_count' = IF result.fault = "none" THEN result.map.count ELSE m_count
    /\ m_controlBuffer' = IF result.fault = "none" THEN result.map.ctrl ELSE m_controlBuffer
    /\ m_kvpBuffer' = IF result.fault = "none" THEN result.map.kvp ELSE m_kvpBuffer

Becomes(result) == Stored(result) /\ UNCHANGED <<kUseSimd, twin, own, pool, cmd, ts>>

\* a call: the operation, its key, and its other argument (the value of an
\* insert, the capacity of a construction)
NoCall == [op |-> "none", key |-> NoKey, arg |-> 0]

\* the twin before anything was called on it
NoTwin == [map |-> NullMap, flag |-> FALSE, fault |-> "none", pending |-> NoCall,
           calls |-> 0]

Recorded(k, result, v) ==
    IF result.fault = "none" /\ result.inserted THEN [latest EXCEPT ![k] = v] ELSE latest

Init ==
    /\ kUseSimd \in BOOLEAN
    /\ \E initialCapacity \in 0 .. MaxInitialCapacity :
          LET m == Constructed(initialCapacity, [ctrl |-> <<>>, key |-> NoKey, divide |-> "no trap"])
          IN  /\ m_capacity = m.capacity
              /\ m_count = m.count
              /\ m_controlBuffer = m.ctrl
              /\ m_kvpBuffer = m.kvp
    /\ latest = [k \in Keys |-> NoValue]
    /\ lastOp = [op |-> "FlatHashMap", key |-> NoKey, capacity |-> 0,
                 slot |-> 0 - 1, flag |-> FALSE]
    /\ fault = "none"
    /\ twin = NoTwin
    /\ own = NoneOwned
    /\ pool = NoPool
    /\ cmd = NoSet
    /\ ts = NoTimestamps

DoFind(k) ==
    /\ fault = "none"
    /\ \E g \in Garbage(k) : \E it \in {Find(This, k, g)} :
          /\ fault' = it.fault
          /\ lastOp' = Called("Find", k, it.slot,
                              it.fault = "none" /\ it.slot # End(This))
    /\ UNCHANGED <<kUseSimd, m_capacity, m_count, m_controlBuffer, m_kvpBuffer, latest,
                   twin, own, pool, cmd, ts>>

\* Insert(kvp) and Emplace(kvp): the same code but for copy or move
DoInsert(k, v) ==
    /\ fault = "none"
    /\ Cardinality(Occupied(This)) < MaxEntries
    /\ \E g \in Garbage(k) : \E result \in {Insert(This, [key |-> k, val |-> v], g)} :
          /\ Becomes(result)
          /\ lastOp' = Called("Insert", k, result.slot, result.inserted)
          /\ latest' = Recorded(k, result, v)

\* InsertUnstable(kvp) and EmplaceUnstable(kvp): the same code but for copy or move
DoInsertUnstable(k, v) ==
    /\ fault = "none"
    /\ Cardinality(Occupied(This)) < MaxEntries
    /\ \E g \in Garbage(k) : \E result \in {EmplaceUnstable(This, [key |-> k, val |-> v], g)} :
          /\ Becomes(result)
          /\ lastOp' = Called("InsertUnstable", k, result.slot, result.inserted)
          /\ latest' = Recorded(k, result, v)

DoRemove(k) ==
    /\ fault = "none"
    /\ m_count > 0 - MaxUnderflow
    /\ \E g \in Garbage(k) : \E result \in {Remove(This, k, g)} :
          /\ Becomes(result)
          /\ lastOp' = Called("Remove", k, result.slot, result.inserted)
          /\ latest' = IF result.fault = "none" /\ result.inserted
                       THEN [latest EXCEPT ![k] = NoValue]
                       ELSE latest

DoDefragment ==
    /\ fault = "none"
    /\ \E g \in Garbage(NoKey) : \E result \in {Defragment(This, g)} :
          /\ Becomes(result)
          /\ lastOp' = Called("Defragment", NoKey, 0 - 1, FALSE)
          /\ UNCHANGED latest

Lookup == \E k \in Keys : DoFind(k)
InsertStable == \E k \in Keys, v \in Values : DoInsert(k, v)
InsertFast == \E k \in Keys, v \in Values : DoInsertUnstable(k, v)
Removal == \E k \in Keys : DoRemove(k)

\* the calls of a client that keeps to the stable inserts
NextStable == Lookup \/ InsertStable \/ Removal \/ DoDefragment

Next == NextStable \/ InsertFast

Spec == Init /\ [][Next]_vars

SpecStable == Init /\ [][NextStable]_vars

\* the two builds on their own
InitScalar == Init /\ kUseSimd = FALSE

SpecScalar == InitScalar /\ [][NextStable]_vars

InitSimd == Init /\ kUseSimd = TRUE

SpecSimd == InitSimd /\ [][NextStable]_vars

\* ---- paired runs: the same calls on a scalar map and on a vectorized map
\* The scalar map is the one in m_capacity .. m_kvpBuffer, the vectorized map
\* is twin.map.  kUseSimd tells which build is executing: a call is made on
\* the scalar map first (kUseSimd false) and is then pending on the twin,
\* which executes it with kUseSimd true.
Calls ==
    [op : {"Find", "Remove"}, key : Keys, arg : {0}]
        \cup [op : {"Insert", "InsertUnstable"}, key : Keys, arg : Values]
        \cup [op : {"Defragment"}, key : {NoKey}, arg : {0}]
        \cup [op : {"FlatHashMap"}, key : {NoKey}, arg : 1 .. MaxInitialCapacity]

\* the call made on map m; "FlatHashMap" is m = FlatHashMap(allocator, arg),
\* the move assignment of a newly constructed map to one that has no buffers
Apply(m, call, g) ==
    CASE call.op = "Find" ->
            LET it == Find(m, call.key, g)
            IN  IF it.fault # "none" THEN Failure(m, it.fault)
                ELSE Result(m, it.slot, it.slot # End(m))
      [] call.op = "Insert" -> Insert(m, [key |-> call.key, val |-> call.arg], g)
      [] call.op = "InsertUnstable" ->
            EmplaceUnstable(m, [key |-> call.key, val |-> call.arg], g)
      [] call.op = "Remove" -> Remove(m, call.key, g)
      [] call.op = "Defragment" -> Defragment(m, g)
      [] call.op = "FlatHashMap" -> Result(Constructed(call.arg, g), 0 - 1, FALSE)

\* the calls the model explores on map m
Explored(m, call) ==
    CASE call.op \in {"Insert", "InsertUnstable"} -> Cardinality(Occupied(m)) < MaxEntries
      [] call.op = "Remove" -> m.count > 0 - MaxUnderflow
      [] call.op = "FlatHashMap" -> m.capacity = 0 /\ lastOp.op = "FlatHashMap"
      [] OTHER -> TRUE

PairCall(call) ==
    /\ kUseSimd = FALSE
    /\ twin.pending = NoCall
    /\ twin.calls < MaxPairCalls
    /\ fault = "none" /\ twin.fault = "none"
    /\ Explored(This, call) /\ Explored(twin.map, call)
    /\ \E g \in Garbage(call.key) : \E result \in {Apply(This, call, g)} :
          /\ Stored(result)
          /\ lastOp' = Called(call.op, call.key, result.slot, result.inserted)
    /\ twin' = [twin EXCEPT !.pending = call]
    /\ kUseSimd' = TRUE
    /\ UNCHANGED <<latest, own, pool, cmd, ts>>

PairReplay ==
    /\ kUseSimd = TRUE
    /\ twin.pending # NoCall
    /\ \E g \in GarbageOf(twin.map, twin.pending.key) :
          \E result \in {Apply(twin.map, twin.pending, g)} :
              twin' = [map |-> IF result.fault = "none" THEN result.map ELSE twin.map,
                       flag |-> result.inserted,
                       fault |-> result.fault,
                       pending |-> NoCall,
                       calls |-> twin.calls + 1]
    /\ kUseSimd' = FALSE
    /\ UNCHANGED <<m_capacity, m_count, m_controlBuffer, m_kvpBuffer, latest, lastOp,
                   fault, own, pool, cmd, ts>>

PairCalls == \E call \in Calls : PairCall(call)

NextPair == PairCalls \/ PairReplay

\* both maps start without buffers; a first call may construct them
InitPair == Init /\ kUseSimd = FALSE /\ m_capacity = 0

SpecPair == InitPair /\ [][NextPair]_vars

\* ---- the buffers: the calls on the map objects
\* the numbers of valid entries the rebuilds of one call may meet: Defragment
\* goes through the whole table, and its temporary map may grow in its turn;
\* Grow goes through the first m_count slots
Valid == [1 .. 2 -> 0 .. (MaxEntries + 1)]
ValidInGrow == [1 .. 1 -> 0 .. MaxEntries]

\* one call allocates at most two pairs of buffers
Room == Cardinality(Unallocated(own.heap)) >= 4

Alive(i) == own.life[i] = "alive"

Owned(heap, maps, life, name, dst, src) ==
    /\ own' = [heap |-> heap, maps |-> maps, life |-> life,
               op |-> [name |-> name, dst |-> dst, src |-> src]]
    /\ UNCHANGED <<kUseSimd, m_capacity, m_count, m_controlBuffer, m_kvpBuffer,
                   latest, lastOp, fault, twin, pool, cmd, ts>>

OwnConstruct(i, initialCapacity) ==
    /\ own.life[i] = "unborn" /\ Room
    /\ \E made \in {OwnedConstructed(own.heap, initialCapacity)} :
          Owned(made.heap, [own.maps EXCEPT ![i] = made.this],
                [own.life EXCEPT ![i] = "alive"], "FlatHashMap", 0, 0)

\* FlatHashMap(FlatHashMap&& _other)
OwnMoveConstruct(i, j) ==
    /\ own.life[i] = "unborn" /\ Alive(j)
    /\ Owned(own.heap, [own.maps EXCEPT ![i] = own.maps[j], ![j] = EmptyObject],
             [own.life EXCEPT ![i] = "alive"], "move constructor", i, j)

\* maps[i] = std::move(maps[j]); i = j is the self-assignment, in which the
\* assignment of the members comes before the source is emptied
OwnMoveAssign(i, j) ==
    /\ Alive(i) /\ Alive(j)
    /\ \E moved \in {OwnedMoveAssign(own.heap, own.maps[i], own.maps[j])} :
          Owned(moved.heap, [own.maps EXCEPT ![i] = moved.this, ![j] = moved.other],
                own.life, "operator=", i, j)

\* an insert of either kind; a stable insert may find the key and then
\* leaves m_count as it is
OwnInsert(i, inserted, valid) ==
    /\ Alive(i) /\ Room
    /\ own.maps[i].count < MaxEntries
    /\ \E placed \in {OwnedAllocateSlot(own.heap, own.maps[i], valid)} :
          Owned(placed.heap,
                [own.maps EXCEPT ![i] = IF inserted THEN placed.this
                                        ELSE [placed.this EXCEPT !.count = @ - 1]],
                own.life, "Insert", 0, 0)

\* a Remove that finds its key
OwnRemove(i) ==
    /\ Alive(i)
    /\ own.maps[i].count > 0
    /\ Owned(own.heap, [own.maps EXCEPT ![i].count = @ - 1], own.life, "Remove", 0, 0)

OwnDefragment(i, valid) ==
    /\ Alive(i) /\ Room
    /\ \E rebuilt \in {OwnedDefragment(own.heap, own.maps[i], valid)} :
          Owned(rebuilt.heap, [own.maps EXCEPT ![i] = rebuilt.this], own.life,
                "Defragment", 0, 0)

\* the object is gone after its destructor: no members are left to look at
OwnDestroy(i) ==
    /\ Alive(i)
    /\ Owned(OwnedDestroy(own.heap, own.maps[i]), [own.maps EXCEPT ![i] = EmptyObject],
             [own.life EXCEPT ![i] = "destroyed"], "destructor", 0, 0)

Constructions == \E i \in Objects, c \in 0 .. MaxInitialCapacity : OwnConstruct(i, c)
MoveConstructions == \E i \in Objects, j \in Objects : OwnMoveConstruct(i, j)
MoveAssignments == \E i \in Objects, j \in Objects : OwnMoveAssign(i, j)
OwnInserts ==
    \E i \in Objects, inserted \in BOOLEAN, valid \in ValidInGrow :
        OwnInsert(i, inserted, valid)
OwnRemoves == \E i \in Objects : OwnRemove(i)
OwnDefragments == \E i \in Objects, valid \in Valid : OwnDefragment(i, valid)
Destructions == \E i \in Objects : OwnDestroy(i)

NextOwn ==
    \/ Constructions \/ MoveConstructions \/ MoveAssignments
    \/ OwnInserts \/ OwnRemoves \/ OwnDefragments \/ Destructions

InitOwn == Init /\ m_capacity = 0

SpecOwn == InitOwn /\ [][NextOwn]_vars

\* ---- the pool: the calls of a client that frees only what it holds
\* live: the indices Allocate returned that were not freed since; freed: the
\* indices freed and not returned again since; last: the last call
Pooled(result, op, live, freed) ==
    /\ pool' = [life |-> "alive",
                m_pool |-> result.pool.m_pool,
                m_firstFree |-> result.pool.m_firstFree,
                m_size |-> result.pool.m_size,
                m_capacity |-> result.pool.m_capacity,
                live |-> IF result.fault = "none" THEN live ELSE pool.live,
                freed |-> IF result.fault = "none" THEN freed ELSE pool.freed,
                last |-> [op |-> op, index |-> result.index],
                fault |-> result.fault]
    /\ UNCHANGED <<mapVars, cmd, ts>>

PoolInUse == pool.life = "alive" /\ pool.fault = "none"

DoPoolConstruct(baseCapacity) ==
    /\ pool.life = "unborn"
    /\ Pooled(PoolResult(PoolConstructed(baseCapacity), 0), "Pool", {}, {})

DoPoolAllocate ==
    /\ PoolInUse
    /\ \E link \in IndexType : \E result \in {PoolAllocate(ThePool, link)} :
          Pooled(result, "Allocate",
                 pool.live \cup {result.index}, pool.freed \ {result.index})

DoPoolFree(index) ==
    /\ PoolInUse
    /\ index \in pool.live
    /\ Cardinality(pool.freed) < MaxFreed
    /\ Pooled(PoolFree(ThePool, index), "Free",
              pool.live \ {index}, pool.freed \cup {index})

DoPoolWrite(index) ==
    /\ PoolInUse
    /\ index \in pool.live
    /\ index \in DOMAIN pool.m_pool
    /\ pool.m_pool[index] # ObjectT
    /\ Pooled(PoolResult(PoolWritten(ThePool, index), index), "operator[]",
              pool.live, pool.freed)

PoolConstructions == \E baseCapacity \in 0 .. MaxBaseCapacity : DoPoolConstruct(baseCapacity)
PoolFrees == \E index \in IndexType : DoPoolFree(index)
PoolWrites == \E index \in IndexType : DoPoolWrite(index)

NextPool == PoolConstructions \/ DoPoolAllocate \/ PoolFrees \/ PoolWrites

InitPool == Init /\ kUseSimd = FALSE /\ m_capacity = 0

SpecPool == InitPool /\ [][NextPool]_vars

\* ---- the command lists: threads calling one CommandAllocationSet
\* pc: where each thread is in its call; call: the call it is in; arg: the
\* command list it passed; out: the lists BeginCommandList returned since the
\* last Reset; last: the last call that returned and what it returned
Commanded(s) == cmd' = s /\ UNCHANGED <<mapVars, pool, ts>>

SetInUse == cmd.life # "unborn" /\ cmd.fault = "none"

At(t, where) == SetInUse /\ cmd.pc[t] = where

Returns(s, t, op, list) ==
    [s EXCEPT !.pc[t] = "idle", !.call[t] = "none", !.arg[t] = NoList,
              !.last = [op |-> op, list |-> list]]

\* the constructor of Dx12FrameContext: initAllocator(_alloc, set, ...)
DoSetConstruct(alloc) ==
    /\ cmd.life = "unborn"
    /\ Commanded([cmd EXCEPT !.life = "alive", !.m_commandAllocator = alloc])

CallBeginCommandList(t) ==
    /\ At(t, "idle")
    /\ Len(cmd.m_usedCommandLists)
          + Cardinality({u \in Threads : cmd.call[u] = "BeginCommandList"}) < MaxLists
    /\ Commanded([cmd EXCEPT !.pc[t] = "verify", !.call[t] = "BeginCommandList"])

CallEndCommandList(t, commandList) ==
    /\ At(t, "idle")
    /\ commandList \in cmd.recording
    /\ Commanded([cmd EXCEPT !.pc[t] = "verify", !.call[t] = "EndCommandList",
                             !.arg[t] = commandList])

CallReset(t) ==
    /\ At(t, "idle")
    /\ Commanded([cmd EXCEPT !.pc[t] = "lock", !.call[t] = "Reset"])

\* VERIFY_OR_RETURN(m_commandAllocator != nullptr, ...), before the lock
Verify(t) ==
    /\ At(t, "verify")
    /\ Commanded(IF cmd.m_commandAllocator
                 THEN [cmd EXCEPT !.pc[t] = "lock"]
                 ELSE Returns(cmd, t, cmd.call[t], NoList))

\* m_mutex.AutoLock(); Destroy takes the mutex twice, in the Reset it calls
\* and then in its own body
Lock(t) ==
    /\ At(t, "lock") \/ At(t, "lock in Reset")
    /\ cmd.m_mutex = NoThread
    /\ Commanded([cmd EXCEPT !.m_mutex = t,
                             !.pc[t] = IF cmd.pc[t] = "lock" THEN "locked"
                                       ELSE "locked in Reset"])

Locked(t, op) == At(t, "locked") /\ cmd.m_mutex = t /\ cmd.call[t] = op

Unlocked(s) == [s EXCEPT !.m_mutex = NoThread]

DoBeginCommandList(t) ==
    /\ Locked(t, "BeginCommandList")
    /\ IF cmd.life = "destroyed"
       THEN Commanded([cmd EXCEPT !.fault = "CreateCommandList on a released allocator"])
       ELSE \E s \in {BeginCommandList(cmd)} :
               \E back \in {s.m_usedCommandLists[Len(s.m_usedCommandLists)]} :
                   Commanded(Returns([Unlocked(s) EXCEPT !.out = @ \cup {back}],
                                     t, "BeginCommandList", back))

DoEndCommandList(t) ==
    /\ Locked(t, "EndCommandList")
    /\ Commanded(Returns(Unlocked(EndCommandList(cmd, cmd.arg[t])),
                         t, "EndCommandList", cmd.arg[t]))

DoReset(t) ==
    /\ Locked(t, "Reset")
    /\ Commanded(Returns([Unlocked(Reset(cmd)) EXCEPT !.out = {}], t, "Reset", NoList))

BeginCalls == \E t \in Threads : CallBeginCommandList(t)
EndCalls == \E t \in Threads, commandList \in 1 .. MaxLists : CallEndCommandList(t, commandList)
ResetCalls == \E t \in Threads : CallReset(t)
Verifies == \E t \in Threads : Verify(t)
Locks == \E t \in Threads : Lock(t)
Begins == \E t \in Threads : DoBeginCommandList(t)
Ends == \E t \in Threads : DoEndCommandList(t)
Resets == \E t \in Threads : DoReset(t)
SetConstructions == \E alloc \in BOOLEAN : DoSetConstruct(alloc)

NextLists ==
    \/ SetConstructions
    \/ BeginCalls \/ EndCalls \/ ResetCalls
    \/ Verifies \/ Locks
    \/ Begins \/ Ends \/ Resets

InitLists == Init /\ kUseSimd = FALSE /\ m_capacity = 0

SpecLists == InitLists /\ [][NextLists]_vars

\* the destructor of Dx12FrameContext calls Destroy, once
CallDestroy(t) ==
    /\ At(t, "idle")
    /\ ~cmd.destroying
    /\ Commanded([cmd EXCEPT !.pc[t] = "check", !.call[t] = "Destroy",
                             !.destroying = TRUE])

\* if (!m_usedCommandLists.empty()) Reset(); the vector is read without the
\* mutex: it is read as it is before or after the locked part of another call
DestroyCheck(t) ==
    /\ At(t, "check")
    /\ Commanded([cmd EXCEPT !.pc[t] = IF cmd.m_usedCommandLists # <<>>
                                       THEN "lock in Reset"
                                       ELSE "lock"])

DestroyReset(t) ==
    /\ At(t, "locked in Reset")
    /\ cmd.m_mutex = t
    /\ Commanded([Unlocked(Reset(cmd)) EXCEPT !.out = {}, !.pc[t] = "lock"])

\* KE_ASSERT_MSG(m_usedCommandLists.empty(), ...) and the releases
DoDestroy(t) ==
    /\ Locked(t, "Destroy")
    /\ Commanded(IF cmd.m_usedCommandLists # <<>>
                 THEN [cmd EXCEPT !.fault = "assert m_usedCommandLists.empty()"]
                 ELSE Returns(Unlocked(Destroy(cmd)), t, "Destroy", NoList))

DestroyCalls == \E t \in Threads : CallDestroy(t)
DestroyChecks == \E t \in Threads : DestroyCheck(t)
DestroyResets == \E t \in Threads : DestroyReset(t)
Destroys == \E t \in Threads : DoDestroy(t)

NextSet == NextLists \/ DestroyCalls \/ DestroyChecks \/ DestroyResets \/ Destroys

SpecSet == InitLists /\ [][NextSet]_vars

\* ---- the timestamps: threads calling PutTimestamp and ResolveTimestamps
\* count: the local of a thread in ResolveTimestamps; handed: the indices
\* PutTimestamp returned since m_timestampIndex was last set to 0
Stamped(f) == ts' = f /\ UNCHANGED <<mapVars, pool, cmd>>

\* the timestamp buffers are created, or not, when the context is set up
DoFrameConstruct(allocation, offset) ==
    /\ ts.life = "unborn"
    /\ Stamped([ts EXCEPT !.life = "alive",
                          !.m_timestampBufferAllocation = allocation,
                          !.m_timestampOffset = offset])

DoPutTimestamp(t) ==
    /\ ts.life = "alive"
    /\ ts.pc[t] = "idle"
    /\ ts.m_timestampIndex < MaxTimestamps
    /\ \E f \in {PutTimestamp(ts)} :
          Stamped([f EXCEPT !.handed = @ \cup {f.last.index}])

\* VERIFY_OR_RETURN_VOID(m_timestampBufferAllocation != nullptr) and the load
\* of the counter; one thread resolves the frame
ResolveLoad(t) ==
    /\ ts.life = "alive"
    /\ \A u \in Threads : ts.pc[u] = "idle"
    /\ Stamped(IF ts.m_timestampBufferAllocation
               THEN [ts EXCEPT !.pc[t] = "loaded",
                               !.count[t] = ts.m_timestampIndex,
                               !.last = [op |-> "load", index |-> 0]]
               ELSE [ts EXCEPT !.last = [op |-> "ResolveTimestamps", index |-> 0]])

\* ResolveQueryData, Map, m_timestamps.resize(count) and the copy, Unmap
ResolveCopy(t) ==
    /\ ts.life = "alive"
    /\ ts.pc[t] = "loaded"
    /\ Stamped([ts EXCEPT !.pc[t] = "copied", !.m_timestamps = ts.count[t],
                          !.last = [op |-> "copy", index |-> 0]])

\* m_timestampIndex.store(0)
ResolveStore(t) ==
    /\ ts.life = "alive"
    /\ ts.pc[t] = "copied"
    /\ Stamped([ts EXCEPT !.pc[t] = "idle", !.m_timestampIndex = 0, !.handed = {},
                          !.count[t] = 0,
                          !.last = [op |-> "ResolveTimestamps", index |-> 0]])

FrameConstructions ==
    \E allocation \in BOOLEAN, offset \in Offsets : DoFrameConstruct(allocation, offset)
Puts == \E t \in Threads : DoPutTimestamp(t)
ResolveLoads == \E t \in Threads : ResolveLoad(t)
ResolveCopies == \E t \in Threads : ResolveCopy(t)
ResolveStores == \E t \in Threads : ResolveStore(t)

NextTimestamps ==
    FrameConstructions \/ Puts \/ ResolveLoads \/ ResolveCopies \/ ResolveStores

InitTimestamps == Init /\ kUseSimd = FALSE /\ m_capacity = 0

SpecTimestamps == InitTimestamps /\ [][NextTimestamps]_vars

\* ======================= properties =======================
\* the occupied slots of m that hold key k
SlotsOf(m, k) == {i \in Occupied(m) : m.kvp[i].key = k}

\* every Find(k) on m returns an occupied slot that holds k
Found(m, k) ==
    \A g \in Garbage(k) :
        LET it == Find(m, k, g)
        IN  it.fault = "none" /\ it.slot \in SlotsOf(m, k)

\* every Find(k) on m returns end()
Absent(m, k) == \A g \in Garbage(k) : Find(m, k, g) = Returned(End(m))

InsertReturned == lastOp.op = "Insert" /\ fault = "none"
RemoveReturned == lastOp.op = "Remove" /\ fault = "none"

\* C1: every key whose latest successful insert stored v and that was not
\* removed since is found by Find, in an occupied slot holding (k, v).
C1_RoundTrip ==
    \A k \in Keys :
        latest[k] # NoValue =>
            \A g \in Garbage(k) :
                LET it == Find(This, k, g)
                IN  /\ it.fault = "none"
                    /\ it.slot < m_capacity
                    /\ IsValidEntry(This, it.slot)
                    /\ m_kvpBuffer[it.slot] = [key |-> k, val |-> latest[k]]

\* C2: an insert that runs Grow on a table with capacity > 0 keeps every
\* (key, value) pair, adds at most the inserted key's pair, changes count by
\* the insert alone, keeps every present key findable and enlarges capacity.
C2_GrowthPreservesPairs ==
    [][(/\ m_capacity > 0
        /\ LoadFactorExceeded(This)
        /\ InsertReturned')
       => /\ Pairs(This) \subseteq Pairs(This)'
          /\ \A p \in Pairs(This)' \ Pairs(This) : p.key = lastOp'.key /\ lastOp'.flag
          /\ m_count' = m_count + (IF lastOp'.flag THEN 1 ELSE 0)
          /\ \A k \in Keys : SlotsOf(This, k) # {} => Found(This, k)'
          /\ m_capacity' > m_capacity]_vars

\* C3: a stable insert of a key that is present returns the slot that holds
\* it, with the 'inserted' flag false, and leaves count as it was.
C3_NoDuplicateInsert ==
    [][\A k \in Keys :
          (InsertReturned' /\ lastOp'.key = k /\ SlotsOf(This, k) # {})
          => /\ ~lastOp'.flag
             /\ m_count' = m_count
             /\ lastOp'.slot \in SlotsOf(This, k)']_vars

\* C4: no two occupied slots hold equal keys.
C4_KeysUnique ==
    \A i \in Occupied(This) : \A j \in Occupied(This) :
        i # j => m_kvpBuffer[i].key # m_kvpBuffer[j].key

\* C5: after Remove(k1) returned true, every other key that is present is
\* found by Find, in its slot.
C5_NoFalseNegative ==
    [][(RemoveReturned' /\ lastOp'.flag)
       => \A k2 \in Keys \ {lastOp'.key} :
              SlotsOf(This, k2) # {} => Found(This, k2)']_vars

\* C6: after Remove(k) returned true, Find(k) returns end() and a further
\* Remove(k) returns false.
C6_RemovedIsAbsent ==
    (RemoveReturned /\ lastOp.flag)
        => /\ Absent(This, lastOp.key)
           /\ \A g \in Garbage(lastOp.key) : ~Remove(This, lastOp.key, g).inserted

\* C7: count is the number of occupied slots, between 0 and capacity.
C7_CountIsOccupied ==
    /\ m_count = Cardinality(Occupied(This))
    /\ 0 <= m_count
    /\ m_count <= m_capacity

\* C8: after an insert returned, count / capacity <= 0.7.
C8_LoadFactorBound ==
    (lastOp.op \in {"Insert", "InsertUnstable"} /\ fault = "none")
        => /\ 0 <= m_count
           /\ m_count * 10 <= 7 * m_capacity

\* C9: a stable insert makes capacity at least 32 when it was 0, doubles it
\* when (count + 1) / capacity > 0.7, and leaves it unchanged otherwise.
\* (m_count + 1 < 0: the size_t sum is a number near 2^32.)
C9_GrowthTrigger ==
    [][InsertReturned'
       => /\ m_capacity = 0 => m_capacity' >= 32
          /\ (m_capacity > 0 /\ (m_count + 1 < 0 \/ (m_count + 1) * 10 > 7 * m_capacity))
                => m_capacity' = 2 * m_capacity
          /\ (m_capacity > 0 /\ m_count + 1 >= 0 /\ (m_count + 1) * 10 <= 7 * m_capacity)
                => m_capacity' = m_capacity]_vars

\* a stable insert into a table that held entries has just doubled capacity
C9_Witness ==
    /\ InsertReturned
    /\ lastOp.flag
    /\ lastOp.capacity > 0
    /\ m_capacity = 2 * lastOp.capacity
    /\ m_count > 1

\* C10: no stable insert runs its probe to the end of the table: the
\* 'Unreachable code' branch is never reached and the assertion
\* result.first != end() of Insert never fails.
C10_ProbeNeverExhausts ==
    fault \notin {"unreachable code", "assert result.first != end()"}

DefragmentReturned == lastOp.op = "Defragment" /\ fault = "none"

\* C11: a Defragment call on a map with capacity > 0 leaves no control byte
\* equal to the tombstone sentinel and leaves capacity as it was.
C11_DefragmentClearsTombstones ==
    [][(m_capacity > 0 /\ DefragmentReturned')
       => /\ \A i \in DOMAIN m_controlBuffer' : m_controlBuffer'[i] # kTombstone
          /\ m_capacity' = m_capacity]_vars

\* the control bytes of m that are tombstones
Tombstones(m) == {i \in DOMAIN m.ctrl : m.ctrl[i] = kTombstone}

\* C12: a Defragment call leaves the set of (key, value) pairs and count as
\* they were; in particular a call on a table without tombstones (such as
\* the second of two calls in a row) leaves the set of pairs unchanged.
C12_DefragmentPreservesContent ==
    [][DefragmentReturned'
       => /\ Pairs(This)' = Pairs(This)
          /\ m_count' = m_count
          /\ Tombstones(This) = {} => Pairs(This)' = Pairs(This)]_vars

\* both maps have answered the same calls
BothAnswered == kUseSimd = FALSE /\ twin.pending = NoCall /\ lastOp.op # "FlatHashMap"

\* C13: after the same calls, the scalar map and the vectorized map have
\* given the same answer to the last call (found / inserted / removed, or
\* the same failure to return) and hold the same set of (key, value) pairs
\* and the same count.
C13_ScalarSimdEquivalence ==
    BothAnswered
        => /\ fault = twin.fault
           /\ lastOp.flag = twin.flag
           /\ Pairs(This) = Pairs(twin.map)
           /\ m_count = twin.map.count

\* C14: on a map that was constructed with capacity 0 and never inserted
\* into, every Find returns end(), every Remove returns false, neither
\* faults and the map is unchanged.
C14_LookupOnEmptyMap ==
    (m_capacity = 0 /\ fault = "none")
        => \A k \in Keys : \A g \in Garbage(k) :
              /\ Find(This, k, g) = Returned(End(This))
              /\ Remove(This, k, g) = Result(This, End(This), FALSE)

InsertUnstableCalled == lastOp.op = "InsertUnstable"

\* the slots of m at a smaller probe distance from hash % capacity than slot
SlotsBefore(m, key, slot) ==
    LET start == Hash(key) % m.capacity
    IN  {(start + d) % m.capacity : d \in 0 .. (((slot - start) % m.capacity) - 1)}

\* C15: InsertUnstable / EmplaceUnstable of an absent key returns, reports
\* 'inserted', adds one to count, and constructs the pair in the slot that
\* was the unoccupied one at the smallest probe distance from hash % capacity
\* (of the table probed, which is the grown one if the call grew it); where
\* the call did not rebuild the table, every occupied slot keeps its pair.
C15_UnstablePlacement ==
    [][\A k \in Keys :
          (InsertUnstableCalled' /\ lastOp'.key = k /\ SlotsOf(This, k) = {})
          => /\ fault' = "none"
             /\ lastOp'.flag
             /\ m_count' = m_count + 1
             /\ lastOp'.slot \in Occupied(This)'
             /\ m_kvpBuffer'[lastOp'.slot].key = k
             /\ \A slot \in 0 .. (m_capacity' - 1) :
                   lastOp'.slot = slot
                       => SlotsBefore(This, k, slot)' \subseteq Occupied(This)'
             /\ m_capacity' = m_capacity
                   => /\ lastOp'.slot \notin Occupied(This)
                      /\ \A i \in Occupied(This) :
                            i \in Occupied(This)' /\ m_kvpBuffer'[i] = m_kvpBuffer[i]]_vars

\* the state of a slot, read from its control byte
SlotState(c) ==
    IF c = kUnused THEN "Empty" ELSE IF c = kTombstone THEN "Tombstone" ELSE "Occupied"

\* the slots whose state differs between two control buffers of one length
Changed(before, after) ==
    {i \in DOMAIN before : SlotState(before[i]) # SlotState(after[i])}

\* C16: a Find, Insert or Remove call that does not rebuild the table changes
\* the state of at most one slot, and only Empty -> Occupied or Tombstone ->
\* Occupied (inserts) or Occupied -> Tombstone (Remove); a Find changes none.
C16_SlotStateMachine ==
    [][(/\ lastOp'.op \in {"Find", "Insert", "InsertUnstable", "Remove"}
        /\ m_capacity' = m_capacity)
       => /\ Cardinality(Changed(m_controlBuffer, m_controlBuffer')) <= 1
          /\ \A i \in Changed(m_controlBuffer, m_controlBuffer') :
                \/ /\ lastOp'.op \in {"Insert", "InsertUnstable"}
                   /\ SlotState(m_controlBuffer[i]) \in {"Empty", "Tombstone"}
                   /\ SlotState(m_controlBuffer'[i]) = "Occupied"
                \/ /\ lastOp'.op = "Remove"
                   /\ SlotState(m_controlBuffer[i]) = "Occupied"
                   /\ SlotState(m_controlBuffer'[i]) = "Tombstone"]_vars

\* the alive objects and fields that hold buffer b
Owners(b) ==
    {<<i, f>> \in Objects \X {"kvp", "ctrl"} : Alive(i) /\ own.maps[i][f] = b}

OwnershipKept ==
    /\ \A b \in Buffers :
          /\ own.heap[b] = "live" => Cardinality(Owners(b)) = 1
          /\ own.heap[b] # "live" => Owners(b) = {}
          /\ own.heap[b] # "released twice"
    /\ \A i \in Objects :
          Alive(i) => (own.maps[i].capacity = 0
                         <=> (own.maps[i].kvp = Null /\ own.maps[i].ctrl = Null))
    /\ own.op.name \in {"move constructor", "operator="}
          => own.maps[own.op.src] = EmptyObject

MoveHandsOver ==
    \A i \in Objects, j \in Objects :
        (/\ own'.op \in {[name |-> "operator=", dst |-> i, src |-> j],
                         [name |-> "move constructor", dst |-> i, src |-> j]}
         /\ i # j)
        => own'.maps[i] = own.maps[j]

\* C17: every buffer that is allocated and not released is held by exactly
\* one field of one living map; no living map holds a released buffer; no
\* buffer is released twice, so that once no map lives every buffer has been
\* released exactly once; a move constructor or a move assignment leaves the
\* source with capacity 0, count 0 and no buffers, and between two maps it
\* gives the destination the buffers, capacity and count the source had.
C17_ExclusiveOwnership == []OwnershipKept /\ [][MoveHandsOver]_vars

\* a move assignment between two maps has released the buffers the
\* destination had and given it those of the source
C17_Witness ==
    /\ own.op.name = "operator=" /\ own.op.dst # own.op.src
    /\ own.maps[own.op.dst].kvp # Null
    /\ own.maps[own.op.dst].ctrl # Null
    /\ own.maps[own.op.src] = EmptyObject
    /\ Cardinality({b \in Buffers : own.heap[b] = "released"}) >= 2

\* C18: in the vectorized build capacity is a multiple of the batch
\* alignment, the control buffer has capacity + padding bytes with a padding
\* of at least one batch width, the batch loaded at the start index of any
\* key lies inside the control buffer, and the slot a lookup returns from a
\* batch lane is a slot of the table.
C18_SimdReadsInBounds ==
    (kUseSimd /\ m_capacity > 0 /\ fault = "none")
        => /\ m_capacity % BatchSize = 0
           /\ kControlBufferPadding >= BatchSize
           /\ DOMAIN m_controlBuffer = 0 .. (m_capacity + kControlBufferPadding - 1)
           /\ \A k \in Keys :
                 /\ (Hash(k) % m_capacity) + BatchSize <= ControlLen(This)
                 /\ \A g \in Garbage(k) :
                       Find(This, k, g).fault = "none"
                           => Find(This, k, g).slot <= m_capacity

\* C19: every Find and every insert ends: the loop over the matching lanes
\* of a batch never reaches an iteration that changes neither matchMask nor
\* offset, from which it would repeat for ever.
C19_ProbingTerminates == fault # "hang"

\* the lanes of a set in increasing order, up to the first one whose slot
\* holds the key
RECURSIVE LanesInOrder(_, _, _, _, _)
LanesInOrder(m, key, g, probeIndex, lanes) ==
    IF lanes = {}
    THEN <<>>
    ELSE LET lane == Min(lanes)
         IN  IF KeyAt(m, probeIndex + lane, g) = key
             THEN <<lane>>
             ELSE <<lane>> \o LanesInOrder(m, key, g, probeIndex, lanes \ {lane})

\* C20: in the batch loaded at the start index of a key, the slots whose
\* keys are compared with it are those of the lanes whose control byte is
\* the key's fragment and that precede the first empty lane, each once, in
\* increasing lane order, up to the first equal key.
C20_BatchMatching ==
    (kUseSimd /\ m_capacity > 0 /\ fault = "none")
        => \A k \in Keys : \A g \in Garbage(k) :
              LET probeIndex == Hash(k) % m_capacity
                  controlBatch == LoadBatch(This, probeIndex, g)
                  unusedMask == EqMask(controlBatch, kUnused)
                  matching == {lane \in Lanes :
                                  /\ controlBatch[lane] = ControlOf(k)
                                  /\ \A empty \in unusedMask : lane < empty}
              IN  MatchLoopCompares(This, k, g, probeIndex,
                                    MatchMask(EqMask(controlBatch, ControlOf(k)), unusedMask), 0)
                      = LanesInOrder(This, k, g, probeIndex, matching)

\* C21: every occupied slot s, holding key k, has the control byte
\* hash(k) >> 25 (its 8th bit 0), and no slot on the probe path from
\* hash(k) % capacity up to s, s excluded, is Empty.
C21_ProbeChain ==
    \A s \in Occupied(This) :
        LET k == m_kvpBuffer[s].key
        IN  /\ m_controlBuffer[s] = ControlOf(k)
            /\ m_controlBuffer[s] < kAvailableSlotFlag
            /\ \A i \in SlotsBefore(This, k, s) : m_controlBuffer[i] # kUnused

\* a key sits behind the tombstone that a Remove left on its probe path
C21_Witness ==
    /\ RemoveReturned
    /\ lastOp.flag
    /\ \E s \in Occupied(This) :
          /\ lastOp.slot \in SlotsBefore(This, m_kvpBuffer[s].key, s)
          /\ m_controlBuffer[lastOp.slot] = kTombstone

\* C22: a stable insert of a key that is present returns, reports 'not
\* inserted', and leaves capacity, count, every control byte and every stored
\* pair as they were, also when count + 1 crosses the load factor.
C22_InsertPresentIsNoOp ==
    [][\A k \in Keys :
          (lastOp'.op = "Insert" /\ lastOp'.key = k /\ SlotsOf(This, k) # {})
          => /\ fault' = "none"
             /\ ~lastOp'.flag
             /\ m_capacity' = m_capacity
             /\ m_count' = m_count
             /\ m_controlBuffer' = m_controlBuffer
             /\ m_kvpBuffer' = m_kvpBuffer]_vars

\* C23: Remove(k) returns true exactly when k is present; when it returns
\* true the control byte of a slot that held k becomes the tombstone, no other
\* control byte changes, count decreases by one, and capacity and the stored
\* pairs are unchanged; when it returns false the map is unchanged.
C23_RemoveConfined ==
    [][\A k \in Keys :
          (lastOp'.op = "Remove" /\ lastOp'.key = k)
          => /\ fault' = "none"
             /\ lastOp'.flag <=> SlotsOf(This, k) # {}
             /\ m_capacity' = m_capacity
             /\ m_kvpBuffer' = m_kvpBuffer
             /\ lastOp'.flag
                   => /\ lastOp'.slot \in SlotsOf(This, k)
                      /\ m_controlBuffer' =
                            [m_controlBuffer EXCEPT ![lastOp'.slot] = kTombstone]
                      /\ m_count' = m_count - 1
             /\ ~lastOp'.flag
                   => /\ m_controlBuffer' = m_controlBuffer
                      /\ m_count' = m_count]_vars

\* the free list: the indices met from m_firstFree along the links, up to
\* kInvalidIndex (or to a cell that holds no link); n bounds a cyclic list
RECURSIVE FreeListFrom(_, _, _)
FreeListFrom(p, index, n) ==
    IF index = kInvalidIndex \/ n = 0
    THEN <<>>
    ELSE IF index \in DOMAIN p.m_pool /\ p.m_pool[index] \in IndexType
         THEN <<index>> \o FreeListFrom(p, p.m_pool[index], n - 1)
         ELSE <<index>>

FreeList(p) == FreeListFrom(p, p.m_firstFree, IndexRange + 1)

PoolKept ==
    PoolInUse
        => /\ pool.m_size <= pool.m_capacity
           /\ pool.last.op = "Allocate" => pool.last.index < pool.m_capacity
           /\ \A i \in DOMAIN FreeList(ThePool) : \A j \in DOMAIN FreeList(ThePool) :
                  i # j => FreeList(ThePool)[i] # FreeList(ThePool)[j]
           /\ {FreeList(ThePool)[i] : i \in DOMAIN FreeList(ThePool)} = pool.freed
           /\ pool.freed \cap pool.live = {}

AllocateIsFresh ==
    (pool'.last.op = "Allocate" /\ pool'.fault = "none")
        => pool'.last.index \notin pool.live

\* C24: while Free is called on allocated indices only, Allocate never
\* returns an index that is allocated, every index it returns is below
\* m_capacity, m_size <= m_capacity, and the free list holds each freed index
\* once and no allocated index.
C24_PoolIndexUnique == []PoolKept /\ [][AllocateIsFresh]_vars

\* the command lists of the two vectors, one after the other
AllLists == cmd.m_usedCommandLists \o cmd.m_availableCommandLists

ListsPartitioned ==
    \A i \in DOMAIN AllLists : \A j \in DOMAIN AllLists :
        i # j => AllLists[i] # AllLists[j]

BeginReturnsFresh ==
    \A t \in Threads :
        (Locked(t, "BeginCommandList") /\ cmd'.pc[t] = "idle")
            => /\ cmd'.last.list # NoList
               /\ cmd'.last.list \notin cmd.out

\* C25: under every interleaving of BeginCommandList, EndCommandList and
\* Reset calls on one set, no command list is in both vectors or twice in
\* one, and BeginCommandList does not return a list it returned since the
\* last Reset.
C25_ListsPartition == []ListsPartitioned /\ [][BeginReturnsFresh]_vars

\* BeginCommandList has just returned, for the second time, the first list,
\* while the second list is available and another thread waits for the mutex
C25_Witness ==
    /\ cmd.last.op = "BeginCommandList"
    /\ cmd.last.list = 1
    /\ cmd.created = 2
    /\ cmd.m_usedCommandLists = <<1>>
    /\ cmd.m_availableCommandLists = <<2>>
    /\ \E t \in Threads : cmd.pc[t] = "lock"

\* C26: when Destroy holds the mutex and evaluates its assertion,
\* m_usedCommandLists is empty, whatever the other threads called before.
C26_DestroyAssertion ==
    \A t \in Threads : Locked(t, "Destroy") => cmd.m_usedCommandLists = <<>>

PutIsFresh ==
    ts'.last.op = "PutTimestamp" /\ ts'.m_timestampIndex # ts.m_timestampIndex
        => ts'.last.index \notin ts.handed

ResetCountsAll ==
    \A t \in Threads :
        (ts.pc[t] = "copied" /\ ts'.pc[t] = "idle")
            => \A index \in ts.handed :
                  /\ index >= ts.m_timestampOffset
                  /\ index - ts.m_timestampOffset < ts.count[t]

\* C27: a PutTimestamp receives an index that no other PutTimestamp received
\* since the counter was last reset, and every index handed out lies below
\* the count read by the ResolveTimestamps call that resets the counter.
C27_TimestampsKept == [][PutIsFresh /\ ResetCountsAll]_vars
====
